---- MODULE Spec2Model ----
(***************************************************************************)
(* A model of the Stupid Script evaluator and parser:                      *)
(*   runtime/value.rs        Value and its textual rendering               *)
(*   runtime/env.rs          Environment (define / assign / get)           *)
(*   runtime/interpreter.rs  Interpreter (run / exec_stmt / eval_expr /    *)
(*                           apply_binary_op)                              *)
(*   backend/parser/parser.rs  the recursive-descent Parser                *)
(*   main.rs                 the pipeline: tokenize, parse, run            *)
(*   parser/lexer.rs         the draft Lexer                               *)
(* i64 is modelled as a two's-complement integer of IntBits bits.          *)
(***************************************************************************)
EXTENDS Integers, Sequences, FiniteSets, TLC

VARIABLES
    store,            \* Environment.store: name -> [value, is_const]
    prev_store,       \* the store as it was when the last Environment call began
    env_call,         \* the last Environment call: <<method, arguments...>>
    env_result,       \* what that call returned
    overflow_checks,  \* the build profile: are arithmetic overflow checks compiled in
    op_left,          \* apply_binary_op: left operand
    op_op,            \* apply_binary_op: operator
    op_right,         \* apply_binary_op: right operand
    op_result,        \* apply_binary_op: what the call returned
    statements,       \* Interpreter.run: the statement list handed to run
    output,           \* the text written to standard output
    run_result,       \* Interpreter.run: what the call returned
    tokens,           \* Parser.tokens
    pos,              \* Parser.pos
    parse_result,     \* Parser.parse: what the call returned (or the panic)
    source,           \* main: the source text
    quote_tokens,     \* the tokenizer: does a '"' become a Symbol(DblQuote) token
    pc,               \* main: the phase the pipeline is in
    runs,             \* how many times the source has been tokenized
    first_outcome,    \* what the first tokenize-and-parse of the source produced
    parsed_stmts,     \* Parser.parse: its local statements, while the loop runs
    pos_before,       \* Parser.pos when the last step of parse began
    input,            \* the draft Lexer: input
    position,         \* the draft Lexer: position
    line,             \* the draft Lexer: line
    column,           \* the draft Lexer: column
    draft_tokens,     \* the draft Lexer: the tokens of tokenize so far
    position_before   \* the draft Lexer: position when the last next_token began

pipeline_vars == << source, quote_tokens, pc, runs, first_outcome >>
step_vars == << parsed_stmts, pos_before >>
lexer_vars == << input, position, line, column, draft_tokens, position_before >>
added_vars == << pipeline_vars, step_vars, lexer_vars >>

vars == << store, prev_store, env_call, env_result, overflow_checks,
           op_left, op_op, op_right, op_result,
           statements, output, run_result, tokens, pos, parse_result, added_vars >>

(***************************************************************************)
(* Bounds of the model.                                                    *)
(***************************************************************************)
IntBits == 5
MaxStmts == 3
MaxOperands == 3

(***************************************************************************)
(* i64, scaled to IntBits bits.                                            *)
(***************************************************************************)
RECURSIVE Pow2(_)
Pow2(n) == IF n = 0 THEN 1 ELSE 2 * Pow2(n - 1)

MinInt == -Pow2(IntBits - 1)
MaxInt == Pow2(IntBits - 1) - 1
I64 == MinInt..MaxInt

\* The value a two's-complement register of IntBits bits holds for x.
Wrap(x) == ((x - MinInt) % Pow2(IntBits)) + MinInt

Abs(x) == IF x < 0 THEN -x ELSE x

\* Signed division as the hardware does it: the quotient truncated toward zero.
TruncDiv(a, b) ==
    IF (a < 0) = (b < 0) THEN Abs(a) \div Abs(b) ELSE -(Abs(a) \div Abs(b))

(***************************************************************************)
(* Results: Ok(v), Err(message), and a panic (the thread unwinds).         *)
(***************************************************************************)
Unit == "()"
Ok(v) == << "Ok", v >>
Err(msg) == << "Err", msg >>
Panic(msg) == << "Panic", msg >>
Some(v) == << "Some", v >>
None == << "None", Unit >>
NotCalled == << "NotCalled", Unit >>
\* The variant of a result, and what it carries.
Kind(r) == r[1]
Val(r) == r[2]

(***************************************************************************)
(* runtime/value.rs                                                        *)
(***************************************************************************)
\* enum Value { Int(i64), Str(String), Bool(bool) }: the variant first, so that
\* values of different variants compare by their variant.
IntV(i) == << "Int", i >>
StrV(s) == << "Str", s >>
BoolV(b) == << "Bool", b >>
Tag(val) == val[1]
Payload(val) == val[2]

Digit(d) == SubSeq("0123456789", d + 1, d + 1)

RECURSIVE NatToString(_)
NatToString(n) ==
    IF n < 10 THEN Digit(n) ELSE NatToString(n \div 10) \o Digit(n % 10)

\* i64::to_string: the decimal rendering, with a leading '-' when negative.
IntToString(i) == IF i < 0 THEN "-" \o NatToString(-i) ELSE NatToString(i)

\* bool::to_string
BoolToString(b) == IF b THEN "true" ELSE "false"

\* A plausible slip: a Str rendered as {:?} renders it, inside quotes.
to_string_value_Debug(val) ==
    CASE Tag(val) = "Int" -> IntToString(Payload(val))
      [] Tag(val) = "Str" -> "\"" \o Payload(val) \o "\""
      [] Tag(val) = "Bool" -> BoolToString(Payload(val))

to_string_value(val) ==
    CASE Tag(val) = "Int" -> IntToString(Payload(val))
      [] Tag(val) = "Str" -> Payload(val)
      [] Tag(val) = "Bool" -> BoolToString(Payload(val))

\* impl fmt::Display for Value
Display(val) ==
    CASE Tag(val) = "Int" -> IntToString(Payload(val))
      [] Tag(val) = "Str" -> Payload(val)
      [] Tag(val) = "Bool" -> BoolToString(Payload(val))

(***************************************************************************)
(* runtime/env.rs                                                          *)
(***************************************************************************)
EmptyStore == [n \in {} |-> None]

\* HashMap::insert
Insert(st, name, entry) ==
    [n \in (DOMAIN st) \cup {name} |-> IF n = name THEN entry ELSE st[n]]

Entry(value, is_const) == [value |-> value, is_const |-> is_const]

\* Plausible slips of define, used to test the claims about it.
define_NoConstCheck(st, name, value, is_const) ==
    [store |-> Insert(st, name, Entry(value, is_const)), result |-> Ok(Unit)]

define_KeepsConstancy(st, name, value, is_const) ==
    IF name \in DOMAIN st /\ st[name].is_const
    THEN [store |-> st,
          result |-> Err("Cannot redefine constant '" \o name \o "'")]
    ELSE [store |-> Insert(st, name,
                           Entry(value, IF name \in DOMAIN st
                                        THEN st[name].is_const ELSE is_const)),
          result |-> Ok(Unit)]

define(st, name, value, is_const) ==
    IF name \in DOMAIN st /\ st[name].is_const
    THEN [store |-> st,
          result |-> Err("Cannot redefine constant '" \o name \o "'")]
    ELSE [store |-> Insert(st, name, Entry(value, is_const)),
          result |-> Ok(Unit)]

\* A plausible slip of assign: an absent name is created instead of rejected.
assign_Upsert(st, name, value) ==
    IF name \in DOMAIN st
    THEN IF st[name].is_const
         THEN [store |-> st,
               result |-> Err("Cannot assign to constant '" \o name \o "'")]
         ELSE [store |-> [st EXCEPT ![name].value = value],
               result |-> Ok(Unit)]
    ELSE [store |-> Insert(st, name, Entry(value, FALSE)), result |-> Ok(Unit)]

assign(st, name, value) ==
    IF name \in DOMAIN st
    THEN IF st[name].is_const
         THEN [store |-> st,
               result |-> Err("Cannot assign to constant '" \o name \o "'")]
         ELSE [store |-> [st EXCEPT ![name].value = value],
               result |-> Ok(Unit)]
    ELSE [store |-> st, result |-> Err("Undefined variable '" \o name \o "'")]

get(st, name) == IF name \in DOMAIN st THEN Some(st[name].value) ELSE None

(***************************************************************************)
(* runtime/interpreter.rs: apply_binary_op                                 *)
(***************************************************************************)
Operators == {"Plus", "Minus", "Multiply", "Division", "Assignment"}

BothInt(left, right) == Tag(left) = "Int" /\ Tag(right) = "Int"

\* The i64 operators +, -, *: the exact result when it fits; otherwise a panic
\* in a build with overflow checks and the wrapped result in one without.
Arith(x, verb) ==
    IF x \in I64
    THEN Ok(IntV(x))
    ELSE IF overflow_checks
         THEN Panic("attempt to " \o verb \o " with overflow")
         ELSE Ok(IntV(Wrap(x)))

\* The i64 operator / with a non-zero divisor: i64::MIN / -1 panics in every
\* build.
Quotient(a, b) ==
    IF a = MinInt /\ b = -1
    THEN Panic("attempt to divide with overflow")
    ELSE Ok(IntV(TruncDiv(a, b)))

apply_plus(left, right) ==
    CASE BothInt(left, right) -> Arith(Payload(left) + Payload(right), "add")
      [] Tag(left) = "Str" /\ Tag(right) = "Str" ->
            Ok(StrV(Payload(left) \o Payload(right)))
      [] OTHER -> Ok(StrV(to_string_value(left) \o to_string_value(right)))

apply_minus(left, right) ==
    IF BothInt(left, right)
    THEN Arith(Payload(left) - Payload(right), "subtract")
    ELSE Err("'-' operator requires integer operands")

apply_multiply(left, right) ==
    IF BothInt(left, right)
    THEN Arith(Payload(left) * Payload(right), "multiply")
    ELSE Err("'*' operator requires integer operands")

\* A plausible slip: the zero divisor is tested before the operand types.
apply_division_ZeroFirst(left, right) ==
    CASE right = IntV(0) -> Err("Division by zero")
      [] BothInt(left, right) -> Quotient(Payload(left), Payload(right))
      [] OTHER -> Err("'/' operator requires integer operands")

apply_division(left, right) ==
    CASE BothInt(left, right) /\ Payload(right) = 0 -> Err("Division by zero")
      [] BothInt(left, right) /\ Payload(right) # 0 ->
            Quotient(Payload(left), Payload(right))
      [] OTHER -> Err("'/' operator requires integer operands")

apply_binary_op(left, op, right) ==
    CASE op = "Plus" -> apply_plus(left, right)
      [] op = "Minus" -> apply_minus(left, right)
      [] op = "Multiply" -> apply_multiply(left, right)
      [] op = "Division" -> apply_division(left, right)
      [] op = "Assignment" ->
            Err("Unexpected assignment operator in expression")

(***************************************************************************)
(* backend/ast: Expr and Stmt, the variant first.                          *)
(***************************************************************************)
Identifier(name) == << "Identifier", name >>
StringLiteral(s) == << "StringLiteral", s >>
IntLiteral(i) == << "IntLiteral", i >>
Binary(left, op, right) == << "Binary", left, op, right >>

VarDeclaration(constant, name, value) ==
    << "VarDeclaration", constant, name, value >>
PrintStmt(newline, expr) == << "Print", newline, expr >>

(***************************************************************************)
(* runtime/interpreter.rs: eval_expr, exec_stmt, run                       *)
(***************************************************************************)
\* The `?` operator: anything but Ok leaves the function at once (an Err is
\* returned, a panic unwinds).
ReturnsEarly(r) == Kind(r) # "Ok"

\* A plausible slip: the right operand is evaluated before the left one.
RECURSIVE eval_expr_RightFirst(_, _)
eval_expr_RightFirst(st, expr) ==
    CASE expr[1] = "IntLiteral" -> Ok(IntV(expr[2]))
      [] expr[1] = "StringLiteral" -> Ok(StrV(expr[2]))
      [] expr[1] = "Identifier" ->
            LET found == get(st, expr[2])
            IN  IF Kind(found) = "Some"
                THEN Ok(Val(found))
                ELSE Err("Undefined identifier '" \o expr[2] \o "'")
      [] expr[1] = "Binary" ->
            LET r == eval_expr_RightFirst(st, expr[4])
            IN  IF ReturnsEarly(r) THEN r
                ELSE LET l == eval_expr_RightFirst(st, expr[2])
                     IN  IF ReturnsEarly(l) THEN l
                         ELSE apply_binary_op(Val(l), expr[3], Val(r))

RECURSIVE eval_expr(_, _)
eval_expr(st, expr) ==
    CASE expr[1] = "IntLiteral" -> Ok(IntV(expr[2]))
      [] expr[1] = "StringLiteral" -> Ok(StrV(expr[2]))
      [] expr[1] = "Identifier" ->
            LET found == get(st, expr[2])
            IN  IF Kind(found) = "Some"
                THEN Ok(Val(found))
                ELSE Err("Undefined identifier '" \o expr[2] \o "'")
      [] expr[1] = "Binary" ->
            LET l == eval_expr(st, expr[2])
            IN  IF ReturnsEarly(l) THEN l
                ELSE LET r == eval_expr(st, expr[4])
                     IN  IF ReturnsEarly(r) THEN r
                         ELSE apply_binary_op(Val(l), expr[3], Val(r))

\* A plausible slip: the name is declared, with an empty string, before its
\* value is evaluated, and stays declared when the evaluation fails.
exec_stmt_DeclaresFirst(st, out, stmt) ==
    CASE stmt[1] = "VarDeclaration" ->
            LET val == eval_expr(st, stmt[4])
            IN  IF ReturnsEarly(val)
                THEN [store |-> define(st, stmt[3], StrV(""), stmt[2]).store,
                      output |-> out, result |-> val]
                ELSE LET d == define(st, stmt[3], Val(val), stmt[2])
                     IN  [store |-> d.store, output |-> out,
                          result |-> d.result]
      [] stmt[1] = "Print" ->
            LET v == eval_expr(st, stmt[3])
            IN  IF ReturnsEarly(v)
                THEN [store |-> st, output |-> out, result |-> v]
                ELSE [store |-> st,
                      output |-> out \o Display(Val(v))
                                     \o (IF stmt[2] THEN "\n" ELSE ""),
                      result |-> Ok(Unit)]

\* exec_stmt on the environment st with out already written: the environment
\* and the output it leaves, and what it returns.
exec_stmt(st, out, stmt) ==
    CASE stmt[1] = "VarDeclaration" ->
            LET val == eval_expr(st, stmt[4])
            IN  IF ReturnsEarly(val)
                THEN [store |-> st, output |-> out, result |-> val]
                ELSE LET d == define(st, stmt[3], Val(val), stmt[2])
                     IN  [store |-> d.store, output |-> out,
                          result |-> d.result]
      [] stmt[1] = "Print" ->
            LET v == eval_expr(st, stmt[3])
            IN  IF ReturnsEarly(v)
                THEN [store |-> st, output |-> out, result |-> v]
                ELSE [store |-> st,
                      output |-> out \o Display(Val(v))
                                     \o (IF stmt[2] THEN "\n" ELSE ""),
                      result |-> Ok(Unit)]

\* The loop of run from statement k on.
RECURSIVE run_from(_, _, _, _)
run_from(stmts, k, st, out) ==
    IF k > Len(stmts)
    THEN [store |-> st, output |-> out, result |-> Ok(Unit)]
    ELSE LET r == exec_stmt(st, out, stmts[k])
         IN  IF ReturnsEarly(r.result)
             THEN r
             ELSE run_from(stmts, k + 1, r.store, r.output)

run(stmts, st, out) == run_from(stmts, 1, st, out)

(***************************************************************************)
(* backend/parser/parser.rs                                                *)
(* A token is << kind, payload, line >>; a parsing function returns what   *)
(* it produced (or the panic that ended the parse) and the cursor it left. *)
(***************************************************************************)
Token(kind, payload) == << kind, payload, 1 >>
TokKind(tok) == tok[1]
TokVal(tok) == tok[2]
TokLine(tok) == tok[3]
TokIs(tok, kind, payload) == tok[1] = kind /\ tok[2] = payload

Ret(res, p) == [res |-> res, pos |-> p]
Panicked(r) == Kind(r.res) = "Panic"

\* A panic in r ends the parse with r; otherwise the parse goes on with K(r).
Then(r, K(_)) == IF Panicked(r) THEN r ELSE K(r)

\* {:?} of a TokenKind
DebugKind(tok) ==
    IF TokKind(tok) = "Identifier"
    THEN "Identifier(\"" \o TokVal(tok) \o "\")"
    ELSE TokKind(tok) \o "(" \o TokVal(tok) \o ")"

is_end(toks, p) == p >= Len(toks)

\* &self.tokens[self.pos]: indexing past the end panics.
current(toks, p) ==
    IF p < Len(toks)
    THEN Ret(Ok(toks[p + 1]), p)
    ELSE Ret(Panic("index out of bounds: the len is "
                      \o IntToString(Len(toks))
                      \o " but the index is " \o IntToString(p)), p)

advance(toks, p) == IF ~is_end(toks, p) THEN p + 1 ELSE p

\* match self.current().kind { <kind> => self.advance(), _ => panic!(msg) }
Expect(toks, p, kind, payload, msg) ==
    Then(current(toks, p), LAMBDA cur :
        IF TokIs(Val(cur.res), kind, payload)
        THEN Ret(Ok(Unit), advance(toks, p))
        ELSE Ret(Panic(msg), p))

\* The body of a string literal: identifier tokens up to the closing quote.
RECURSIVE string_loop(_, _, _)
string_loop(toks, p, text) ==
    Then(current(toks, p), LAMBDA cur :
        IF TokKind(Val(cur.res)) = "Identifier"
        THEN string_loop(toks, advance(toks, p), text \o TokVal(Val(cur.res)))
        ELSE IF TokIs(Val(cur.res), "Symbol", "DblQuote")
             THEN Ret(Ok(StringLiteral(text)), advance(toks, p))
             ELSE Ret(Panic("Unclosed string literal"), p))

parse_primary(toks, p) ==
    Then(current(toks, p), LAMBDA cur :
        CASE TokKind(Val(cur.res)) = "Identifier" ->
                Ret(Ok(Identifier(TokVal(Val(cur.res)))), advance(toks, p))
          [] TokIs(Val(cur.res), "Symbol", "DblQuote") ->
                string_loop(toks, advance(toks, p), "")
          [] OTHER ->
                Ret(Panic("Unexpected token " \o DebugKind(Val(cur.res))
                              \o " in expression"), p))

\* A plausible slip: the factor loop also takes the additive operators.
IsMultiplicative_AnyOperator(tok) ==
    TokKind(tok) = "Operator"
        /\ TokVal(tok) \in {"Plus", "Minus", "Multiply", "Division"}

\* The operator patterns of the two loops.
IsMultiplicative(tok) ==
    TokKind(tok) = "Operator" /\ TokVal(tok) \in {"Multiply", "Division"}

IsAdditive(tok) ==
    TokKind(tok) = "Operator" /\ TokVal(tok) \in {"Plus", "Minus"}

RECURSIVE factor_loop(_, _, _)
factor_loop(toks, p, expr) ==
    Then(current(toks, p), LAMBDA cur :
        IF IsMultiplicative(Val(cur.res))
        THEN Then(parse_primary(toks, advance(toks, p)), LAMBDA right :
                 factor_loop(toks, right.pos,
                     Binary(expr, TokVal(Val(cur.res)), Val(right.res))))
        ELSE Ret(Ok(expr), p))

parse_factor(toks, p) ==
    Then(parse_primary(toks, p), LAMBDA first :
        factor_loop(toks, first.pos, Val(first.res)))

RECURSIVE term_loop(_, _, _)
term_loop(toks, p, expr) ==
    Then(current(toks, p), LAMBDA cur :
        IF IsAdditive(Val(cur.res))
        THEN Then(parse_factor(toks, advance(toks, p)), LAMBDA right :
                 term_loop(toks, right.pos,
                     Binary(expr, TokVal(Val(cur.res)), Val(right.res))))
        ELSE Ret(Ok(expr), p))

parse_term(toks, p) ==
    Then(parse_factor(toks, p), LAMBDA first :
        term_loop(toks, first.pos, Val(first.res)))

parse_expression(toks, p) == parse_term(toks, p)

parse_var_decl(toks, p, constant) ==
    Then(current(toks, advance(toks, p)), LAMBDA cur :
        IF TokKind(Val(cur.res)) # "Identifier"
        THEN Ret(Panic("Expected identifier after let/const"), cur.pos)
        ELSE
        Then(Expect(toks, advance(toks, cur.pos), "Operator", "Assignment",
                    "Expected '=' after variable name"), LAMBDA eq :
        Then(parse_expression(toks, eq.pos), LAMBDA expr :
        Then(Expect(toks, expr.pos, "Symbol", "SemiColon",
                    "Expected ';' after expression"), LAMBDA semi :
        Ret(Ok(VarDeclaration(constant, TokVal(Val(cur.res)), Val(expr.res))),
            semi.pos)))))

parse_print(toks, p, newline) ==
    Then(Expect(toks, advance(toks, p), "Symbol", "LParen",
                "Expected '(' after print"), LAMBDA lp :
    Then(parse_expression(toks, lp.pos), LAMBDA expr :
    Then(Expect(toks, expr.pos, "Symbol", "RParen",
                "Expected ')' after print expression"), LAMBDA rp :
    \* optional semicolon: if let SemiColon = self.current().kind
    Then(current(toks, rp.pos), LAMBDA cur :
    Ret(Ok(PrintStmt(newline, Val(expr.res))),
        IF TokIs(Val(cur.res), "Symbol", "SemiColon")
        THEN advance(toks, rp.pos) ELSE rp.pos)))))

\* A plausible slip: a token that starts no statement is passed over as an
\* empty print, and the cursor is left where it was.
parse_statement_SkipsNothing(toks, p) ==
    Then(current(toks, p), LAMBDA cur :
        CASE TokIs(Val(cur.res), "Keyword", "Let") ->
                parse_var_decl(toks, p, FALSE)
          [] TokIs(Val(cur.res), "Keyword", "Const") ->
                parse_var_decl(toks, p, TRUE)
          [] TokIs(Val(cur.res), "Keyword", "Print") ->
                parse_print(toks, p, FALSE)
          [] TokIs(Val(cur.res), "Keyword", "Println") ->
                parse_print(toks, p, TRUE)
          [] OTHER -> Ret(Ok(PrintStmt(FALSE, StringLiteral(""))), p))

parse_statement(toks, p) ==
    Then(current(toks, p), LAMBDA cur :
        CASE TokIs(Val(cur.res), "Keyword", "Let") ->
                parse_var_decl(toks, p, FALSE)
          [] TokIs(Val(cur.res), "Keyword", "Const") ->
                parse_var_decl(toks, p, TRUE)
          [] TokIs(Val(cur.res), "Keyword", "Print") ->
                parse_print(toks, p, FALSE)
          [] TokIs(Val(cur.res), "Keyword", "Println") ->
                parse_print(toks, p, TRUE)
          [] OTHER ->
                Ret(Panic("Unexpected statement at line "
                              \o IntToString(TokLine(Val(cur.res)))), p))

\* The loop of parse: statements so far in stmts, the cursor at p.
RECURSIVE parse_loop(_, _, _)
parse_loop(toks, p, stmts) ==
    IF is_end(toks, p)
    THEN Ret(Ok(stmts), p)
    ELSE Then(parse_statement(toks, p), LAMBDA stmt :
             parse_loop(toks, stmt.pos, Append(stmts, Val(stmt.res))))

\* A plausible slip: the cursor is not set back to 0 for a new parser.
parse_ResumesAtCursor(toks) == parse_loop(toks, pos, << >>)

\* Parser::new(tokens).parse()
parse(toks) == parse_loop(toks, 0, << >>)

(***************************************************************************)
(* The Environment driven by arbitrary calls.                              *)
(***************************************************************************)
EnvNames == {"x", "y"}
EnvValues == {IntV(0), IntV(1), StrV("a"), BoolV(TRUE)}

OpIdle ==
    /\ op_left = IntV(0) /\ op_op = "Plus" /\ op_right = IntV(0)
    /\ op_result = NotCalled
RunIdle == statements = << >> /\ output = "" /\ run_result = NotCalled
ParseIdle == tokens = << >> /\ pos = 0 /\ parse_result = NotCalled
EnvIdle ==
    /\ store = EmptyStore /\ prev_store = EmptyStore
    /\ env_call = << "new" >> /\ env_result = NotCalled
PipelineIdle ==
    /\ source = "" /\ quote_tokens = TRUE /\ pc = "idle" /\ runs = 0
    /\ first_outcome = NotCalled
StepIdle == parsed_stmts = << >> /\ pos_before = 0
LexerIdle ==
    /\ input = "" /\ position = 0 /\ line = 1 /\ column = 1
    /\ draft_tokens = << >> /\ position_before = 0
AddedIdle == PipelineIdle /\ StepIdle /\ LexerIdle

InitEnv ==
    /\ EnvIdle
    /\ overflow_checks = TRUE
    /\ OpIdle /\ RunIdle /\ ParseIdle /\ AddedIdle

Define(name, value, is_const) ==
    LET r == define(store, name, value, is_const)
    IN  /\ prev_store' = store
        /\ store' = r.store
        /\ env_call' = << "define", name, value, is_const >>
        /\ env_result' = r.result
        /\ UNCHANGED << overflow_checks, op_left, op_op, op_right, op_result,
                        statements, output, run_result, tokens, pos, parse_result, added_vars >>

Assign(name, value) ==
    LET r == assign(store, name, value)
    IN  /\ prev_store' = store
        /\ store' = r.store
        /\ env_call' = << "assign", name, value >>
        /\ env_result' = r.result
        /\ UNCHANGED << overflow_checks, op_left, op_op, op_right, op_result,
                        statements, output, run_result, tokens, pos, parse_result, added_vars >>

Get(name) ==
    /\ prev_store' = store
    /\ store' = store
    /\ env_call' = << "get", name >>
    /\ env_result' = get(store, name)
    /\ UNCHANGED << overflow_checks, op_left, op_op, op_right, op_result,
                    statements, output, run_result, tokens, pos, parse_result, added_vars >>

NextEnv ==
    \/ \E name \in EnvNames, value \in EnvValues, is_const \in BOOLEAN :
          Define(name, value, is_const)
    \/ \E name \in EnvNames, value \in EnvValues : Assign(name, value)
    \/ \E name \in EnvNames : Get(name)

SpecEnv == InitEnv /\ [][NextEnv]_vars

(***************************************************************************)
(* Claims about the Environment, checked under SpecEnv.                    *)
(***************************************************************************)
CalledName == env_call[2]
WasConst(n) == n \in DOMAIN prev_store /\ prev_store[n].is_const

\* C1: once a name is stored with is_const = true its (value, is_const) entry
\* never changes again: every later define or assign on that name returns an
\* error and leaves the whole store unchanged.
C1_ConstEntryFrozen ==
    /\ \A n \in DOMAIN prev_store :
          prev_store[n].is_const =>
              n \in DOMAIN store /\ store[n] = prev_store[n]
    /\ (env_call[1] \in {"define", "assign"} /\ WasConst(CalledName)) =>
          Kind(env_result) = "Err" /\ store = prev_store

\* A define with another value on a name that is const was rejected.
C1_Witness ==
    /\ env_call[1] = "define"
    /\ WasConst(CalledName)
    /\ env_call[3] # prev_store[CalledName].value
    /\ Kind(env_result) = "Err"

\* C2: define fails iff the name is already present with its const flag set;
\* otherwise it succeeds, the entry of the name becomes exactly
\* (value, is_const), and no other name's entry changes.
C2_DefineContract ==
    env_call[1] = "define" =>
        IF WasConst(CalledName)
        THEN Kind(env_result) = "Err" /\ store = prev_store
        ELSE /\ env_result = Ok(Unit)
             /\ DOMAIN store = (DOMAIN prev_store) \cup {CalledName}
             /\ store[CalledName].value = env_call[3]
             /\ store[CalledName].is_const = env_call[4]
             /\ \A m \in (DOMAIN prev_store) \ {CalledName} :
                   store[m] = prev_store[m]

\* A non-const name was redefined as const with another value, beside another
\* name.
C2_Witness ==
    /\ env_call[1] = "define"
    /\ CalledName \in DOMAIN prev_store
    /\ ~prev_store[CalledName].is_const
    /\ env_call[4]
    /\ env_call[3] # prev_store[CalledName].value
    /\ store[CalledName].is_const
    /\ (DOMAIN prev_store) \ {CalledName} # {}
    /\ env_result = Ok(Unit)

\* C3: assign returns the Undefined error when the name is absent, the Constant
\* error when it is present and const, and otherwise overwrites only the value
\* of the name, keeping its const flag (false); on an error the store is
\* unchanged, and assign never creates a name.
C3_AssignContract ==
    env_call[1] = "assign" =>
        /\ DOMAIN store = DOMAIN prev_store
        /\ CASE CalledName \notin DOMAIN prev_store ->
                  /\ env_result = Err("Undefined variable '" \o CalledName \o "'")
                  /\ store = prev_store
             [] WasConst(CalledName) ->
                  /\ env_result =
                        Err("Cannot assign to constant '" \o CalledName \o "'")
                  /\ store = prev_store
             [] OTHER ->
                  /\ env_result = Ok(Unit)
                  /\ store[CalledName].value = env_call[3]
                  /\ store[CalledName].is_const = FALSE
                  /\ \A m \in (DOMAIN prev_store) \ {CalledName} :
                        store[m] = prev_store[m]

\* An assign overwrote the value of a non-const name, beside a const name.
C3_Witness ==
    /\ env_call[1] = "assign"
    /\ env_result = Ok(Unit)
    /\ store[CalledName].value # prev_store[CalledName].value
    /\ \E m \in DOMAIN store : store[m].is_const

(***************************************************************************)
(* apply_binary_op applied to every pair of operands, in either build.     *)
(***************************************************************************)
OpValues ==
    {IntV(i) : i \in I64} \cup {StrV(t) : t \in {"", "a", "x", "3"}}
        \cup {BoolV(b) : b \in BOOLEAN}

InitOp ==
    /\ op_left \in OpValues
    /\ op_op \in Operators
    /\ op_right \in OpValues
    /\ op_result = NotCalled
    /\ overflow_checks \in BOOLEAN
    /\ EnvIdle /\ RunIdle /\ ParseIdle /\ AddedIdle

ApplyBinaryOp ==
    /\ op_result = NotCalled
    /\ op_result' = apply_binary_op(op_left, op_op, op_right)
    /\ UNCHANGED << store, prev_store, env_call, env_result, overflow_checks,
                    op_left, op_op, op_right,
                    statements, output, run_result, tokens, pos, parse_result, added_vars >>

NextOp == ApplyBinaryOp

SpecOp == InitOp /\ [][NextOp]_vars

(***************************************************************************)
(* Claims about apply_binary_op, checked under SpecOp.                     *)
(***************************************************************************)
OpReturned == op_result # NotCalled

\* C5: for all i64 a and b with b # 0 (a = i64::MIN with b = -1 included)
\* '/' on Int(a), Int(b) returns Int of the quotient truncated toward zero and
\* does not fail; '/' on Int(a), Int(0) returns the DivisionByZero error.
C5_DivisionNeverFails ==
    (OpReturned /\ op_op = "Division" /\ BothInt(op_left, op_right)) =>
        IF Payload(op_right) # 0
        THEN /\ Kind(op_result) = "Ok"
             /\ Tag(Val(op_result)) = "Int"
             /\ Payload(Val(op_result))
                   = TruncDiv(Payload(op_left), Payload(op_right))
        ELSE op_result = Err("Division by zero")

\* C6: for all i64 a and b '+' on Int(a), Int(b) succeeds and returns Int of
\* the sum wrapped to the width of i64, also when the sum is out of range.
C6_PlusWraps ==
    (OpReturned /\ op_op = "Plus" /\ BothInt(op_left, op_right)) =>
        op_result = Ok(IntV(Wrap(Payload(op_left) + Payload(op_right))))

\* The textual rendering a Value is to have, stated apart from the code: an
\* Int is its canonical decimal numeral, a Str is its own text, a Bool is
\* true or false.
IsDigit(c) == \E d \in 0..9 : Digit(d) = c
DigitOf(c) == CHOOSE d \in 0..9 : Digit(d) = c
IsNumeral(t) ==
    /\ Len(t) > 0
    /\ \A k \in 1..Len(t) : IsDigit(SubSeq(t, k, k))
    /\ Len(t) > 1 => SubSeq(t, 1, 1) # "0"
RECURSIVE NumeralValue(_)
NumeralValue(t) ==
    IF Len(t) = 0 THEN 0
    ELSE 10 * NumeralValue(SubSeq(t, 1, Len(t) - 1))
            + DigitOf(SubSeq(t, Len(t), Len(t)))
Renders(t, val) ==
    CASE Tag(val) = "Int" ->
            IF Payload(val) < 0
            THEN /\ Len(t) > 1
                 /\ SubSeq(t, 1, 1) = "-"
                 /\ IsNumeral(SubSeq(t, 2, Len(t)))
                 /\ NumeralValue(SubSeq(t, 2, Len(t))) = -Payload(val)
            ELSE IsNumeral(t) /\ NumeralValue(t) = Payload(val)
      [] Tag(val) = "Str" -> t = Payload(val)
      [] Tag(val) = "Bool" -> t = (IF Payload(val) THEN "true" ELSE "false")

\* C7: '+' on a pair of Values that is not (Int, Int) never fails and returns
\* Str of the left operand's rendering followed by the right operand's, with
\* no separator: Int(3) + Str(x) is Str("3x"), Str(x) + Int(3) is Str("x3"),
\* and Bool operands render as true / false.
C7_PlusConcatenates ==
    (OpReturned /\ op_op = "Plus" /\ ~BothInt(op_left, op_right)) =>
        /\ Kind(op_result) = "Ok"
        /\ Tag(Val(op_result)) = "Str"
        /\ LET t == Payload(Val(op_result))
           IN  \E k \in 0..Len(t) :
                  /\ Renders(SubSeq(t, 1, k), op_left)
                  /\ Renders(SubSeq(t, k + 1, Len(t)), op_right)
        /\ (op_left = IntV(3) /\ op_right = StrV("x")) =>
              op_result = Ok(StrV("3x"))
        /\ (op_left = StrV("x") /\ op_right = IntV(3)) =>
              op_result = Ok(StrV("x3"))
        /\ (op_left = BoolV(TRUE) /\ op_right = BoolV(FALSE)) =>
              op_result = Ok(StrV("truefalse"))

\* A negative Int was added to a Str and the sign came first in the text.
C7_Witness ==
    /\ OpReturned /\ op_op = "Plus"
    /\ Tag(op_left) = "Int" /\ Payload(op_left) < -9
    /\ op_right = StrV("x")
    /\ Kind(op_result) = "Ok"
    /\ SubSeq(Payload(Val(op_result)), 1, 1) = "-"

OpSymbol(op) ==
    CASE op = "Minus" -> "'-'" [] op = "Multiply" -> "'*'"
      [] op = "Division" -> "'/'"
Contains(t, sub) ==
    \E k \in 1..(Len(t) - Len(sub) + 1) : SubSeq(t, k, k + Len(sub) - 1) = sub

\* C8: '-', '*' and '/' on a pair with an operand that is not an Int return a
\* type error whose message names that operator and never a value; '/' with a
\* non-Int left operand and Int(0) on the right is the type error, not
\* DivisionByZero.
C8_TypeErrorNamesOperator ==
    (/\ OpReturned
     /\ op_op \in {"Minus", "Multiply", "Division"}
     /\ ~BothInt(op_left, op_right)) =>
        /\ Kind(op_result) = "Err"
        /\ Val(op_result) # "Division by zero"
        /\ Contains(Val(op_result), "requires integer operands")
        /\ \A o \in {"Minus", "Multiply", "Division"} :
              Contains(Val(op_result), OpSymbol(o)) <=> o = op_op

\* A Str was divided by Int(0) and the type error came back.
C8_Witness ==
    /\ OpReturned /\ op_op = "Division"
    /\ Tag(op_left) = "Str" /\ op_right = IntV(0)
    /\ Kind(op_result) = "Err"
    /\ Contains(Val(op_result), "'/'")

(***************************************************************************)
(* Interpreter::new() followed by one run of a statement list.             *)
(***************************************************************************)
DeclExprs ==
    { IntLiteral(1), StringLiteral("a"), Identifier("y"),
      Binary(IntLiteral(MaxInt), "Plus", Identifier("x")),
      Binary(IntLiteral(1), "Division", IntLiteral(0)) }

PrintExprs ==
    { Identifier("x"), StringLiteral("a"),
      Binary(Identifier("x"), "Plus", Identifier("y")),
      Binary(StringLiteral("a"), "Minus", IntLiteral(1)),
      Binary(IntLiteral(MinInt), "Division", IntLiteral(-1)) }

RunStmts ==
    {VarDeclaration(c, "x", e) : c \in BOOLEAN, e \in DeclExprs}
        \cup {VarDeclaration(FALSE, "y", e) : e \in DeclExprs}
        \cup {PrintStmt(TRUE, e) : e \in PrintExprs}
        \cup {PrintStmt(FALSE, Identifier("x"))}

Programs == UNION {[1..n -> RunStmts] : n \in 0..MaxStmts}

InitRun ==
    /\ statements \in Programs
    /\ output = ""
    /\ run_result = NotCalled
    /\ overflow_checks \in BOOLEAN
    /\ EnvIdle /\ OpIdle /\ ParseIdle /\ AddedIdle

Run ==
    /\ run_result = NotCalled
    /\ LET r == run(statements, store, output)
       IN  /\ store' = r.store
           /\ output' = r.output
           /\ run_result' = r.result
    /\ UNCHANGED << prev_store, env_call, env_result, overflow_checks,
                    op_left, op_op, op_right, op_result,
                    statements, tokens, pos, parse_result, added_vars >>

NextRun == Run

SpecRun == InitRun /\ [][NextRun]_vars

(***************************************************************************)
(* Claims about Interpreter.run, checked under SpecRun.                    *)
(***************************************************************************)
\* The environment and output after the first k statements, each executed on
\* what the one before it left.
RECURSIVE After(_)
After(k) ==
    IF k = 0
    THEN [store |-> EmptyStore, output |-> "", result |-> Ok(Unit)]
    ELSE LET before == After(k - 1)
         IN  exec_stmt(before.store, before.output, statements[k])

Fails(k) == Kind(After(k).result) = "Err"
Succeeds(k) == Kind(After(k).result) = "Ok"
FirstFailure(k) == Fails(k) /\ \A j \in 1..(k - 1) : Succeeds(j)

\* C4: run executes the statements in list order and stops at the first one
\* that fails: it returns that statement's RuntimeError, and the output and
\* bindings are exactly those of the statements before it. If no statement
\* fails, run returns success after executing all of them.
C4_FailFast ==
    run_result # NotCalled =>
        /\ \A k \in 1..Len(statements) :
              FirstFailure(k) =>
                  /\ run_result = After(k).result
                  /\ store = After(k - 1).store
                  /\ output = After(k - 1).output
        /\ (\A k \in 1..Len(statements) : ~Fails(k)) =>
              /\ run_result = Ok(Unit)
              /\ store = After(Len(statements)).store
              /\ output = After(Len(statements)).output

(***************************************************************************)
(* Parser::new(tokens) followed by parse(), on token sequences that are    *)
(* one or two statements, and on every prefix of those.                    *)
(***************************************************************************)
Kw(k) == Token("Keyword", k)
Id(name) == Token("Identifier", name)
Op(o) == Token("Operator", o)
Sym(y) == Token("Symbol", y)

BinaryOps == {"Plus", "Minus", "Multiply", "Division"}

\* The i-th operand of an expression is the identifier a, b, c, ... ; the
\* first may also be the string literal "hi", which arrives as four tokens,
\* or a string literal with a keyword between its quotes.
OperandName(i) == SubSeq("abcdefgh", i, i)
FirstOperands ==
    { << Id(OperandName(1)) >>,
      << Sym("DblQuote"), Id("h"), Id("i"), Sym("DblQuote") >>,
      << Sym("DblQuote"), Id("h"), Kw("Let"), Sym("DblQuote") >> }

RECURSIVE ExprTokens(_)
ExprTokens(n) ==
    IF n = 1
    THEN FirstOperands
    ELSE {e \o << Op(o), Id(OperandName(n)) >> :
             e \in ExprTokens(n - 1), o \in BinaryOps}

AllExprTokens == UNION {ExprTokens(n) : n \in 1..MaxOperands}

PrintTokens(kw, e) == << Kw(kw), Sym("LParen") >> \o e \o << Sym("RParen") >>
DeclTokens(kw, e) == << Kw(kw), Id("x"), Op("Assignment") >> \o e

StmtTokens ==
    UNION { { PrintTokens(kw, e), PrintTokens(kw, e) \o << Sym("SemiColon") >> } :
                kw \in {"Print", "Println"}, e \in AllExprTokens }
      \cup
    UNION { { DeclTokens(kw, e), DeclTokens(kw, e) \o << Sym("SemiColon") >> } :
                kw \in {"Let", "Const"}, e \in AllExprTokens }

SecondStmtTokens ==
    { << >>,
      PrintTokens("Print", << Id("z") >>),
      PrintTokens("Println", << Id("z") >>) \o << Sym("SemiColon") >>,
      DeclTokens("Let", << Id("z") >>) \o << Sym("SemiColon") >>,
      << Sym("SemiColon") >> }

TokenInputs ==
    UNION { {SubSeq(t1 \o t2, 1, k) : k \in 0..Len(t1 \o t2)} :
                t1 \in StmtTokens, t2 \in SecondStmtTokens }

InitParse ==
    /\ tokens \in TokenInputs
    /\ pos = 0
    /\ parse_result = NotCalled
    /\ overflow_checks = TRUE
    /\ EnvIdle /\ OpIdle /\ RunIdle /\ AddedIdle

Parse ==
    /\ parse_result = NotCalled
    /\ LET r == parse(tokens)
       IN  /\ parse_result' = r.res
           /\ pos' = r.pos
    /\ UNCHANGED << store, prev_store, env_call, env_result, overflow_checks,
                    op_left, op_op, op_right, op_result,
                    statements, output, run_result, tokens, added_vars >>

NextParse == Parse

SpecParse == InitParse /\ [][NextParse]_vars

(***************************************************************************)
(* Claims about the Parser, checked under SpecParse.                       *)
(***************************************************************************)
Parsed == parse_result # NotCalled

\* The token sequence with a ';' put in after its k-th token.
WithSemiColonAfter(toks, k) ==
    SubSeq(toks, 1, k) \o << Sym("SemiColon") >> \o SubSeq(toks, k + 1, Len(toks))

\* C9: a print or println statement parses to the same Print statement whether
\* or not a ';' follows its closing ')': wherever the input with a ';' after a
\* ')' parses, the input without it parses to the same statements, also when
\* that ')' is the last token.
C9_SemicolonOptional ==
    Parsed =>
        \A k \in 1..Len(tokens) :
            (/\ TokIs(tokens[k], "Symbol", "RParen")
             /\ Kind(parse(WithSemiColonAfter(tokens, k)).res) = "Ok") =>
                parse_result = parse(WithSemiColonAfter(tokens, k)).res

ExprOf(stmt) == IF stmt[1] = "VarDeclaration" THEN stmt[4] ELSE stmt[3]
IsNodeOf(e, ops) == e[1] = "Binary" /\ e[3] \in ops
Additive == {"Plus", "Minus"}
Multiplicative == {"Multiply", "Division"}

\* Two left-associative tiers: a multiplicative node has no additive child and
\* a primary on its right; an additive node has no additive node on its right.
RECURSIVE WellTiered(_)
WellTiered(e) ==
    e[1] = "Binary" =>
        /\ WellTiered(e[2])
        /\ WellTiered(e[4])
        /\ e[3] \in Multiplicative =>
              /\ ~IsNodeOf(e[2], Additive)
              /\ e[4][1] # "Binary"
        /\ e[3] \in Additive => ~IsNodeOf(e[4], Additive)

\* The source text of a token, and of a tree read left to right; a ';' counts
\* for nothing.
TokenText(tok) ==
    CASE TokKind(tok) = "Identifier" -> TokVal(tok)
      [] TokKind(tok) = "Keyword" ->
            (CASE TokVal(tok) = "Let" -> "let" [] TokVal(tok) = "Const" -> "const"
               [] TokVal(tok) = "Print" -> "print"
               [] TokVal(tok) = "Println" -> "println")
      [] TokKind(tok) = "Operator" ->
            (CASE TokVal(tok) = "Plus" -> "+" [] TokVal(tok) = "Minus" -> "-"
               [] TokVal(tok) = "Multiply" -> "*"
               [] TokVal(tok) = "Division" -> "/"
               [] TokVal(tok) = "Assignment" -> "=")
      [] TokKind(tok) = "Symbol" ->
            (CASE TokVal(tok) = "LParen" -> "(" [] TokVal(tok) = "RParen" -> ")"
               [] TokVal(tok) = "DblQuote" -> "\""
               [] TokVal(tok) = "SemiColon" -> "")

RECURSIVE TokensText(_)
TokensText(toks) ==
    IF toks = << >> THEN ""
    ELSE TokenText(Head(toks)) \o TokensText(Tail(toks))

RECURSIVE ExprText(_)
ExprText(e) ==
    CASE e[1] = "Identifier" -> e[2]
      [] e[1] = "StringLiteral" -> "\"" \o e[2] \o "\""
      [] e[1] = "Binary" ->
            ExprText(e[2]) \o TokenText(Op(e[3])) \o ExprText(e[4])

StmtText(stmt) ==
    IF stmt[1] = "VarDeclaration"
    THEN (IF stmt[2] THEN "const" ELSE "let") \o stmt[3] \o "="
            \o ExprText(stmt[4])
    ELSE (IF stmt[2] THEN "println" ELSE "print") \o "("
            \o ExprText(stmt[3]) \o ")"

RECURSIVE StmtsText(_)
StmtsText(stmts) ==
    IF stmts = << >> THEN ""
    ELSE StmtText(Head(stmts)) \o StmtsText(Tail(stmts))

\* print(a o1 b o2 c);
ThreeOperands(o1, o2) ==
    PrintTokens("Print", << Id("a"), Op(o1), Id("b"), Op(o2), Id("c") >>)
        \o << Sym("SemiColon") >>
ParsedTo(e) == parse_result = Ok(<< PrintStmt(FALSE, e) >>)
IdA == Identifier("a")
IdB == Identifier("b")
IdC == Identifier("c")

\* C10: the parser builds expression trees with two left-associative tiers:
\* a - b - c is Binary(Binary(a,-,b),-,c), a / b / c is Binary(Binary(a,/,b),/,c),
\* a + b * c is Binary(a,+,Binary(b,*,c)), a * b + c is Binary(Binary(a,*,b),+,c);
\* no '*' or '/' node is the parent of a '+' or '-' node, and the operands are
\* in the tree in the order of the tokens.
C10_TwoTiersLeftAssociative ==
    (Parsed /\ Kind(parse_result) = "Ok") =>
        /\ \A k \in 1..Len(Val(parse_result)) :
              WellTiered(ExprOf(Val(parse_result)[k]))
        /\ StmtsText(Val(parse_result)) = TokensText(tokens)
        /\ tokens = ThreeOperands("Minus", "Minus") =>
              ParsedTo(Binary(Binary(IdA, "Minus", IdB), "Minus", IdC))
        /\ tokens = ThreeOperands("Division", "Division") =>
              ParsedTo(Binary(Binary(IdA, "Division", IdB), "Division", IdC))
        /\ tokens = ThreeOperands("Plus", "Multiply") =>
              ParsedTo(Binary(IdA, "Plus", Binary(IdB, "Multiply", IdC)))
        /\ tokens = ThreeOperands("Multiply", "Plus") =>
              ParsedTo(Binary(Binary(IdA, "Multiply", IdB), "Plus", IdC))

\* a + b * c was parsed, the product under the sum.
C10_Witness ==
    /\ tokens = ThreeOperands("Plus", "Multiply")
    /\ ParsedTo(Binary(IdA, "Plus", Binary(IdB, "Multiply", IdC)))

\* The index of the token that opens the expression of the first statement,
\* when that token is there and is a double quote; 0 otherwise.
FirstExprAt ==
    IF Len(tokens) > 0 /\ TokKind(tokens[1]) = "Keyword"
    THEN (IF TokVal(tokens[1]) \in {"Print", "Println"} THEN 3 ELSE 4)
    ELSE 0
OpensString ==
    /\ FirstExprAt > 0
    /\ FirstExprAt <= Len(tokens)
    /\ TokIs(tokens[FirstExprAt], "Symbol", "DblQuote")

\* The index of the first token from k on that is not an identifier
\* (Len(tokens) + 1 when the identifiers run to the end of the input).
RECURSIVE RunEnd(_)
RunEnd(k) ==
    IF k <= Len(tokens) /\ TokKind(tokens[k]) = "Identifier"
    THEN RunEnd(k + 1)
    ELSE k

\* The texts of the tokens a..b one after another.
RECURSIVE RunText(_, _)
RunText(a, b) ==
    IF a > b THEN "" ELSE TokVal(tokens[a]) \o RunText(a + 1, b)

RECURSIVE LeftmostLeaf(_)
LeftmostLeaf(e) == IF e[1] = "Binary" THEN LeftmostLeaf(e[2]) ELSE e

Unclosed == Panic("Unclosed string literal")

\* C11: on a double quote in primary position the parser consumes the run of
\* identifier tokens after it and requires a closing double quote: with the
\* closing quote the primary is one StringLiteral of the run's texts joined
\* in order with no separator; when the token after the run is anything else,
\* or the input ends there, the parse aborts with "Unclosed string literal".
C11_StringLiteralOrUnclosed ==
    (Parsed /\ OpensString) =>
        LET q == FirstExprAt
            e == RunEnd(q + 1)
            text == RunText(q + 1, e - 1)
        IN  IF e <= Len(tokens) /\ TokIs(tokens[e], "Symbol", "DblQuote")
            THEN /\ parse_primary(tokens, q - 1)
                       = Ret(Ok(StringLiteral(text)), e)
                 /\ parse_result # Unclosed
                 /\ Kind(parse_result) = "Ok" =>
                       LeftmostLeaf(ExprOf(Val(parse_result)[1]))
                           = StringLiteral(text)
            ELSE parse_result = Unclosed

(***************************************************************************)
(* The tokenizer (crate::lexer::lexer), a single left-to-right scan.       *)
(* A '"' is a symbol of the token model and the parser matches on          *)
(* Symbol(DblQuote), while the scan rules list it among the discarded      *)
(* characters: quote_tokens says which of the two the tokenizer does.      *)
(***************************************************************************)
MaxRuns == 2

Ch(src, i) == SubSeq(src, i, i)
CharsOf(text) == {Ch(text, k) : k \in 1..Len(text)}
Alphabetic == CharsOf("abcdefghijklmnopqrstuvwxyzABCDEFGHIJKLMNOPQRSTUVWXYZ")
Numeric == CharsOf("0123456789")
Whitespace == {" ", "\t", "\n", "\r"}
IsAlphabetic(c) == c \in Alphabetic
IsAlphanumeric(c) == c \in Alphabetic \cup Numeric

TokenAt(kind, payload, ln) == << kind, payload, ln >>

SymbolOf(c) ==
    CASE c = ";" -> "SemiColon" [] c = "(" -> "LParen" [] c = ")" -> "RParen"
      [] c = "\"" -> "DblQuote"
OperatorOf(c) ==
    CASE c = "=" -> "Assignment" [] c = "+" -> "Plus" [] c = "-" -> "Minus"
      [] c = "*" -> "Multiply" [] c = "/" -> "Division"
IsSymbolChar(c) == c \in {";", "(", ")"} \/ (c = "\"" /\ quote_tokens)
IsOperatorChar(c) == c \in {"=", "+", "-", "*", "/"}

\* The index after the maximal run of alphanumeric characters from i on.
RECURSIVE word_end(_, _)
word_end(src, i) ==
    IF i <= Len(src) /\ IsAlphanumeric(Ch(src, i))
    THEN word_end(src, i + 1)
    ELSE i

\* A word is a keyword if it is one of the four, case-sensitively.
WordToken(word, ln) ==
    CASE word = "let" -> TokenAt("Keyword", "Let", ln)
      [] word = "const" -> TokenAt("Keyword", "Const", ln)
      [] word = "print" -> TokenAt("Keyword", "Print", ln)
      [] word = "println" -> TokenAt("Keyword", "Println", ln)
      [] OTHER -> TokenAt("Identifier", word, ln)

\* The scan from character i on, at line ln, acc the tokens so far.
RECURSIVE scan(_, _, _, _)
scan(src, i, ln, acc) ==
    IF i > Len(src) THEN acc
    ELSE IF Ch(src, i) = "\n" THEN scan(src, i + 1, ln + 1, acc)
    ELSE IF Ch(src, i) \in Whitespace THEN scan(src, i + 1, ln, acc)
    ELSE IF IsSymbolChar(Ch(src, i))
         THEN scan(src, i + 1, ln,
                   Append(acc, TokenAt("Symbol", SymbolOf(Ch(src, i)), ln)))
    ELSE IF IsOperatorChar(Ch(src, i))
         THEN scan(src, i + 1, ln,
                   Append(acc, TokenAt("Operator", OperatorOf(Ch(src, i)), ln)))
    ELSE IF IsAlphabetic(Ch(src, i))
         THEN scan(src, word_end(src, i), ln,
                   Append(acc, WordToken(SubSeq(src, i, word_end(src, i) - 1),
                                         ln)))
    ELSE scan(src, i + 1, ln, acc)

tokenize(src) == scan(src, 1, 1, << >>)

(***************************************************************************)
(* main: tokenize the source, parse the tokens, run the statements on a    *)
(* new Interpreter.  The source may be tokenized and parsed again before   *)
(* it is run.                                                              *)
(***************************************************************************)
SumSource == "let x = 3; let y = 4; println(x + y);"
HelloSource == "let s = \"hello\"; print(s); println(\" world\");"
TwiceSource == "const z = \"a\";\nprintln(z + z)\n;print(z);"

Prefixes(text) == {SubSeq(text, 1, k) : k \in 0..Len(text)}
Sources == Prefixes(SumSource) \cup Prefixes(HelloSource) \cup Prefixes(TwiceSource)

InitPipeline ==
    /\ source \in Sources
    /\ quote_tokens \in BOOLEAN
    /\ pc = "lex"
    /\ runs = 0
    /\ first_outcome = NotCalled
    /\ overflow_checks = TRUE
    /\ EnvIdle /\ OpIdle /\ RunIdle /\ ParseIdle /\ StepIdle /\ LexerIdle

\* let tokens = lex(source);
Lex ==
    /\ pc = "lex"
    /\ tokens' = tokenize(source)
    /\ runs' = runs + 1
    /\ pc' = "parse"
    /\ UNCHANGED << store, prev_store, env_call, env_result, overflow_checks,
                    op_left, op_op, op_right, op_result,
                    statements, output, run_result, pos, parse_result,
                    source, quote_tokens, first_outcome, step_vars, lexer_vars >>

\* let mut parser = Parser::new(tokens); let stmts = parser.parse();
ParseTokens ==
    /\ pc = "parse"
    /\ LET r == parse(tokens)
       IN  /\ parse_result' = r.res
           /\ pos' = r.pos
           /\ first_outcome' = IF runs = 1 THEN r.res ELSE first_outcome
    /\ pc' = "parsed"
    /\ UNCHANGED << store, prev_store, env_call, env_result, overflow_checks,
                    op_left, op_op, op_right, op_result,
                    statements, output, run_result, tokens,
                    source, quote_tokens, runs, step_vars, lexer_vars >>

\* The same source goes through tokenize and parse once more.
Again ==
    /\ pc = "parsed"
    /\ runs < MaxRuns
    /\ pc' = "lex"
    /\ tokens' = << >>
    /\ parse_result' = NotCalled
    /\ UNCHANGED << store, prev_store, env_call, env_result, overflow_checks,
                    op_left, op_op, op_right, op_result,
                    statements, output, run_result, pos,
                    source, quote_tokens, runs, first_outcome, step_vars, lexer_vars >>

\* let mut interp = Interpreter::new(); interp.run(stmts)
Interpret ==
    /\ pc = "parsed"
    /\ Kind(parse_result) = "Ok"
    /\ statements' = Val(parse_result)
    /\ LET r == run(Val(parse_result), EmptyStore, "")
       IN  /\ store' = r.store
           /\ output' = r.output
           /\ run_result' = r.result
    /\ pc' = "done"
    /\ UNCHANGED << prev_store, env_call, env_result, overflow_checks,
                    op_left, op_op, op_right, op_result,
                    tokens, pos, parse_result,
                    source, quote_tokens, runs, first_outcome, step_vars, lexer_vars >>

NextPipeline == Lex \/ ParseTokens \/ Again \/ Interpret

SpecPipeline == InitPipeline /\ [][NextPipeline]_vars

(***************************************************************************)
(* Claims about the pipeline, checked under SpecPipeline.                  *)
(***************************************************************************)
\* The pipeline is past parsing: it parsed, and ran if the parse returned.
PastParsing == pc \in {"parsed", "done"}

\* C12: the pipeline on the source  let x = 3; let y = 4; println(x + y);
\* completes without a parse or runtime error and writes exactly 7 and a
\* newline.
C12_SumScenario ==
    (source = SumSource /\ PastParsing) =>
        /\ Kind(parse_result) = "Ok"
        /\ pc = "done" => run_result = Ok(Unit) /\ output = "7\n"

\* C13: the pipeline on  let s = "hello"; print(s); println(" world");
\* completes without error and writes exactly hello world and a newline, the
\* space inside the second string literal kept.
C13_HelloScenario ==
    (source = HelloSource /\ PastParsing) =>
        /\ Kind(parse_result) = "Ok"
        /\ pc = "done" => run_result = Ok(Unit) /\ output = "hello world\n"

InitParseSteps ==
    /\ overflow_checks = TRUE
    /\ EnvIdle /\ OpIdle /\ RunIdle /\ ParseIdle /\ PipelineIdle /\ StepIdle
    /\ LexerIdle

\* Parser::new(tokens)
NewParser(toks) ==
    /\ pc = "idle"
    /\ tokens' = toks
    /\ pos' = 0
    /\ pc' = "parsing"
    /\ UNCHANGED << store, prev_store, env_call, env_result, overflow_checks,
                    op_left, op_op, op_right, op_result,
                    statements, output, run_result, parse_result,
                    source, quote_tokens, runs, first_outcome, lexer_vars, step_vars >>

\* while !self.is_end() { statements.push(self.parse_statement()); }
ParseStatement ==
    /\ pc = "parsing"
    /\ ~is_end(tokens, pos)
    /\ LET r == parse_statement(tokens, pos)
       IN  /\ pos' = r.pos
           /\ parsed_stmts' = IF Panicked(r) THEN parsed_stmts
                              ELSE Append(parsed_stmts, Val(r.res))
           /\ parse_result' = IF Panicked(r) THEN r.res ELSE parse_result
           /\ pc' = IF Panicked(r) THEN "parsed" ELSE pc
    /\ pos_before' = pos
    /\ UNCHANGED << store, prev_store, env_call, env_result, overflow_checks,
                    op_left, op_op, op_right, op_result,
                    statements, output, run_result, tokens,
                    source, quote_tokens, runs, first_outcome, lexer_vars >>

\* the loop is left and parse returns its statements
ReturnStatements ==
    /\ pc = "parsing"
    /\ is_end(tokens, pos)
    /\ parse_result' = Ok(parsed_stmts)
    /\ pc' = "parsed"
    /\ pos_before' = pos
    /\ UNCHANGED << store, prev_store, env_call, env_result, overflow_checks,
                    op_left, op_op, op_right, op_result,
                    statements, output, run_result, tokens, pos,
                    parsed_stmts,
                    source, quote_tokens, runs, first_outcome, lexer_vars >>

NextParseSteps ==
    \/ \E toks \in TokenInputs : NewParser(toks)
    \/ ParseStatement
    \/ ReturnStatements

SpecParseSteps == InitParseSteps /\ [][NextParseSteps]_vars

(***************************************************************************)
(* Claims about the parse loop, checked under SpecParseSteps.              *)
(***************************************************************************)
CursorInBounds ==
    /\ pos_before <= pos
    /\ pos <= Len(tokens)
    /\ Len(parsed_stmts) <= pos
    /\ Kind(parse_result) = "Ok" => Len(Val(parse_result)) <= Len(tokens)

\* C15: on every finite token sequence parse terminates, by returning or by
\* a fatal error: the cursor never decreases and never exceeds the number of
\* tokens, every parse_statement call that returns has consumed at least one
\* token (so a step that leaves the parse running has moved the cursor,
\* which bounds the steps by the number of tokens), and at most as many
\* statements are returned as there are tokens.
C15_ParseTerminates ==
    /\ []CursorInBounds
    /\ [][/\ pos' >= pos
          /\ Len(parsed_stmts') > Len(parsed_stmts) => pos' > pos
          /\ (pc = "parsing" /\ pc' = "parsing") => pos' > pos
          /\ pc = "parsed" => pc' = "parsed"]_vars

\* Two statements were parsed, each moving the cursor, and parse returned at
\* the end of the tokens.
C15_Witness ==
    /\ Kind(parse_result) = "Ok"
    /\ Len(Val(parse_result)) = 2
    /\ pos = Len(tokens)
    /\ pos_before = pos

(***************************************************************************)
(* Interpreter::new() and the loop of run one statement at a time: the     *)
(* statements are those taken from the list so far, prev_store is the      *)
(* environment as the last of them found it.                               *)
(***************************************************************************)
UndefinedOverUndefined == Binary(Identifier("x"), "Division", Identifier("y"))
UndefinedOverZero == Binary(Identifier("x"), "Division", IntLiteral(0))
StringLessUndefined == Binary(StringLiteral("a"), "Minus", Identifier("y"))
ZeroDivisionPlusUndefined ==
    Binary(Binary(IntLiteral(1), "Division", IntLiteral(0)), "Plus",
           Identifier("y"))
Overflowing == Binary(IntLiteral(MaxInt), "Plus", IntLiteral(1))

ExecStmts ==
    {VarDeclaration(FALSE, "x", e) :
        e \in {IntLiteral(1), StringLiteral("a"), UndefinedOverZero, Overflowing}}
      \cup {VarDeclaration(TRUE, "x", e) : e \in {IntLiteral(1), StringLiteral("a")}}
      \cup {VarDeclaration(FALSE, "y", e) :
              e \in {IntLiteral(1), Identifier("x"), UndefinedOverUndefined}}
      \cup {PrintStmt(TRUE, e) :
              e \in {Identifier("x"), UndefinedOverUndefined, UndefinedOverZero,
                     StringLessUndefined, ZeroDivisionPlusUndefined}}
      \cup {PrintStmt(FALSE, Identifier("x"))}

InitExec ==
    /\ overflow_checks \in BOOLEAN
    /\ EnvIdle /\ OpIdle /\ RunIdle /\ ParseIdle /\ AddedIdle

\* for stmt in statements { self.exec_stmt(stmt)?; }
ExecStmt(stmt) ==
    /\ Kind(run_result) \in {"NotCalled", "Ok"}
    /\ Len(statements) < MaxStmts
    /\ statements' = Append(statements, stmt)
    /\ prev_store' = store
    /\ LET r == exec_stmt(store, output, stmt)
       IN  /\ store' = r.store
           /\ output' = r.output
           /\ run_result' = r.result
    /\ UNCHANGED << env_call, env_result, overflow_checks,
                    op_left, op_op, op_right, op_result,
                    tokens, pos, parse_result, added_vars >>

NextExec == \E stmt \in ExecStmts : ExecStmt(stmt)

SpecExec == InitExec /\ [][NextExec]_vars

(***************************************************************************)
(* Claims about exec_stmt and eval_expr, checked under SpecExec.           *)
(***************************************************************************)
Executed == Len(statements) > 0
LastStmt == statements[Len(statements)]

\* C16: executing a statement changes the environment only through a
\* successful define of a VarDeclaration: a VarDeclaration whose value fails
\* to evaluate, or that define rejects, changes no binding, a Print never
\* changes the environment, and a successful VarDeclaration changes the
\* binding of its own name only.
C16_OnlyDefineChangesEnv ==
    Executed =>
        /\ LastStmt[1] = "Print" => store = prev_store
        /\ run_result # Ok(Unit) => store = prev_store
        /\ LastStmt[1] = "VarDeclaration" =>
              /\ Kind(eval_expr(prev_store, LastStmt[4])) # "Ok" =>
                    store = prev_store /\ Kind(run_result) # "Ok"
              /\ WasConst(LastStmt[3]) =>
                    store = prev_store /\ Kind(run_result) # "Ok"
              /\ DOMAIN store \subseteq (DOMAIN prev_store) \cup {LastStmt[3]}
              /\ \A m \in (DOMAIN prev_store) \ {LastStmt[3]} :
                    m \in DOMAIN store /\ store[m] = prev_store[m]

\* The declaration of a name that is bound and not const failed in evaluating
\* its value, and the binding is as it was.
C16_Witness ==
    /\ Executed
    /\ LastStmt[1] = "VarDeclaration"
    /\ LastStmt[3] \in DOMAIN prev_store
    /\ ~WasConst(LastStmt[3])
    /\ Kind(run_result) = "Err"
    /\ store = prev_store

\* What evaluating the operands of a Binary node one after the other gives:
\* the left operand's failure, else the right operand's, else what the
\* operator makes of the two values; and so for the nodes below it.
RECURSIVE LeftOperandFirst(_)
LeftOperandFirst(e) ==
    e[1] = "Binary" =>
        /\ LeftOperandFirst(e[2])
        /\ LeftOperandFirst(e[4])
        /\ LET l == eval_expr(prev_store, e[2])
               r == eval_expr(prev_store, e[4])
               whole == eval_expr(prev_store, e)
           IN  /\ Kind(l) # "Ok" => whole = l
               /\ (Kind(l) = "Ok" /\ Kind(r) # "Ok") => whole = r
               /\ (Kind(l) = "Ok" /\ Kind(r) = "Ok") =>
                     whole = apply_binary_op(Val(l), e[3], Val(r))

Undefined(name) == Err("Undefined identifier '" \o name \o "'")
Unbound(name) == name \notin DOMAIN prev_store

\* C17: a Binary expression evaluates its left operand before its right one
\* and applies the operator only after both succeeded: a failing left operand
\* gives the result whatever the right one would do, with both failing the
\* error is the left one's, and an operand's error comes before the
\* operator's own type error or DivisionByZero.
C17_LeftOperandFirst ==
    Executed =>
        LET e == ExprOf(LastStmt)
        IN  /\ LeftOperandFirst(e)
            /\ Kind(eval_expr(prev_store, e)) # "Ok" =>
                  run_result = eval_expr(prev_store, e)
            /\ (e = UndefinedOverUndefined /\ Unbound("x")) =>
                  run_result = Undefined("x")
            /\ (e = UndefinedOverZero /\ Unbound("x")) =>
                  run_result = Undefined("x")
            /\ (e = StringLessUndefined /\ Unbound("y")) =>
                  run_result = Undefined("y")
            /\ e = ZeroDivisionPlusUndefined =>
                  run_result = Err("Division by zero")

\* x / y was evaluated with neither bound, and the error is about x.
C17_Witness ==
    /\ Executed
    /\ ExprOf(LastStmt) = UndefinedOverUndefined
    /\ Unbound("x") /\ Unbound("y")
    /\ run_result = Undefined("x")

(***************************************************************************)
(* parser/lexer.rs: the draft Lexer.  lx is the lexer's position, line and *)
(* column; a reading function returns the lexer it leaves (lx) and what it *)
(* read (out).  A token is << type, line, column >>, a type is             *)
(* << variant, payload >>; a Float carries the numeral it was parsed from. *)
(***************************************************************************)
MaxInput == 4

peek(inp, lx) ==
    IF lx.position < Len(inp) THEN Some(Ch(inp, lx.position + 1)) ELSE None

peek_next(inp, lx) ==
    IF lx.position + 1 < Len(inp) THEN Some(Ch(inp, lx.position + 2)) ELSE None

\* Lexer::advance (the character it returns is peek before the call)
lexer_advance(inp, lx) ==
    IF lx.position < Len(inp)
    THEN IF Ch(inp, lx.position + 1) = "\n"
         THEN [position |-> lx.position + 1, line |-> lx.line + 1, column |-> 1]
         ELSE [position |-> lx.position + 1, line |-> lx.line,
               column |-> lx.column + 1]
    ELSE lx

RECURSIVE skip_whitespace(_, _)
skip_whitespace(inp, lx) ==
    IF Val(peek(inp, lx)) \in Whitespace
    THEN skip_whitespace(inp, lexer_advance(inp, lx))
    ELSE lx

\* the loop of skip_comment: up to, not over, the end of the line
RECURSIVE skip_to_newline(_, _)
skip_to_newline(inp, lx) ==
    IF peek(inp, lx) = None \/ peek(inp, lx) = Some("\n")
    THEN lx
    ELSE skip_to_newline(inp, lexer_advance(inp, lx))

skip_comment(inp, lx) ==
    IF peek(inp, lx) = Some("/") /\ peek_next(inp, lx) = Some("/")
    THEN skip_to_newline(inp, lexer_advance(inp, lexer_advance(inp, lx)))
    ELSE lx

\* the loop of skip_multi_comment: over the closing */ or to the end
RECURSIVE skip_to_close(_, _)
skip_to_close(inp, lx) ==
    IF peek(inp, lx) = None THEN lx
    ELSE IF peek(inp, lx) = Some("*") /\ peek_next(inp, lx) = Some("/")
         THEN lexer_advance(inp, lexer_advance(inp, lx))
         ELSE skip_to_close(inp, lexer_advance(inp, lx))

skip_multi_comment(inp, lx) ==
    IF peek(inp, lx) = Some("/") /\ peek_next(inp, lx) = Some("*")
    THEN skip_to_close(inp, lexer_advance(inp, lexer_advance(inp, lx)))
    ELSE lx

\* the loop of read_string, result the text read so far
RECURSIVE string_body(_, _, _, _)
string_body(inp, lx, quote, result) ==
    IF peek(inp, lx) = None THEN [lx |-> lx, out |-> result]
    ELSE IF peek(inp, lx) = Some(quote)
         THEN [lx |-> lexer_advance(inp, lx), out |-> result]
    ELSE IF peek(inp, lx) = Some("\\")
         THEN LET escaped == peek(inp, lexer_advance(inp, lx))
              IN  IF escaped = None
                  THEN string_body(inp, lexer_advance(inp, lx), quote, result)
                  ELSE string_body(inp,
                          lexer_advance(inp, lexer_advance(inp, lx)), quote,
                          result \o
                            (CASE Val(escaped) = "n" -> "\n"
                               [] Val(escaped) = "t" -> "\t"
                               [] Val(escaped) = "r" -> "\r"
                               [] Val(escaped) \in {"\\", "\"", "'"} ->
                                     Val(escaped)
                               [] OTHER -> "\\" \o Val(escaped)))
    ELSE string_body(inp, lexer_advance(inp, lx), quote,
                     result \o Val(peek(inp, lx)))

read_string(inp, lx, quote) ==
    string_body(inp, lexer_advance(inp, lx), quote, "")

\* the loop of read_number
RECURSIVE number_body(_, _, _, _)
number_body(inp, lx, number, is_float) ==
    IF Val(peek(inp, lx)) \in Numeric
    THEN number_body(inp, lexer_advance(inp, lx),
                     number \o Val(peek(inp, lx)), is_float)
    ELSE IF /\ peek(inp, lx) = Some(".")
            /\ ~is_float
            /\ Val(peek_next(inp, lx)) \in Numeric
         THEN number_body(inp, lexer_advance(inp, lx), number \o ".", TRUE)
         ELSE [lx |-> lx, out |-> << number, is_float >>]

\* number.parse().unwrap_or(0): a numeral too large for the integer is 0
read_number(inp, lx) ==
    LET r == number_body(inp, lx, "", FALSE)
    IN  [lx |-> r.lx,
         out |-> IF r.out[2]
                 THEN << "Float", r.out[1] >>
                 ELSE << "Integer",
                         IF NumeralValue(r.out[1]) \in I64
                         THEN NumeralValue(r.out[1]) ELSE 0 >>]

\* the loop of read_identifier
RECURSIVE ident_body(_, _, _)
ident_body(inp, lx, ident) ==
    IF IsAlphanumeric(Val(peek(inp, lx))) \/ peek(inp, lx) = Some("_")
    THEN ident_body(inp, lexer_advance(inp, lx), ident \o Val(peek(inp, lx)))
    ELSE [lx |-> lx, out |-> ident]

read_identifier(inp, lx) == ident_body(inp, lx, "")

keyword_or_identifier(ident) ==
    CASE ident = "let" -> << "Let", Unit >>
      [] ident = "const" -> << "Const", Unit >>
      [] ident = "if" -> << "If", Unit >>
      [] ident = "else" -> << "Else", Unit >>
      [] ident = "for" -> << "For", Unit >>
      [] ident = "while" -> << "While", Unit >>
      [] ident = "fn" -> << "Fn", Unit >>
      [] ident = "return" -> << "Return", Unit >>
      [] ident = "break" -> << "Break", Unit >>
      [] ident = "continue" -> << "Continue", Unit >>
      [] ident = "int" -> << "Int", Unit >>
      [] ident = "float" -> << "Float", Unit >>
      [] ident = "bool" -> << "Bool", Unit >>
      [] ident = "string" -> << "String", Unit >>
      [] ident = "true" -> << "Boolean", TRUE >>
      [] ident = "false" -> << "Boolean", FALSE >>
      [] ident = "void" -> << "Void", Unit >>
      [] ident = "print" -> << "Print", Unit >>
      [] ident = "println" -> << "Println", Unit >>
      [] ident = "null" -> << "Null", Unit >>
      [] OTHER -> << "Identifier", ident >>

\* the loop at the head of next_token: whitespace and comments
RECURSIVE skip_ignored(_, _)
skip_ignored(inp, lx) ==
    IF /\ peek(inp, skip_whitespace(inp, lx)) = Some("/")
       /\ peek_next(inp, skip_whitespace(inp, lx)) = Some("/")
    THEN skip_ignored(inp, skip_comment(inp, skip_whitespace(inp, lx)))
    ELSE IF /\ peek(inp, skip_whitespace(inp, lx)) = Some("/")
            /\ peek_next(inp, skip_whitespace(inp, lx)) = Some("*")
         THEN skip_ignored(inp, skip_multi_comment(inp, skip_whitespace(inp, lx)))
         ELSE skip_whitespace(inp, lx)

\* the arms of next_token for operators and delimiters: c is consumed, and
\* the character after it too when the two make one token
operator_token(inp, lx, c) ==
    LET after == lexer_advance(inp, lx)
        n == Val(peek(inp, after))
        One(t) == [lx |-> after, out |-> << t, Unit >>]
        Two(t) == [lx |-> lexer_advance(inp, after), out |-> << t, Unit >>]
    IN  CASE c = "+" -> IF n = "=" THEN Two("PlusEqual") ELSE One("Plus")
          [] c = "-" -> IF n = "=" THEN Two("MinusEqual")
                        ELSE IF n = ">" THEN Two("Arrow") ELSE One("Minus")
          [] c = "*" -> IF n = "=" THEN Two("StarEqual") ELSE One("Star")
          [] c = "/" -> IF n = "=" THEN Two("SlashEqual") ELSE One("Slash")
          [] c = "%" -> IF n = "=" THEN Two("PercentEqual") ELSE One("Percent")
          [] c = "=" -> IF n = "=" THEN Two("EqualEqual")
                        ELSE IF n = ">" THEN Two("FatArrow") ELSE One("Equal")
          [] c = "!" -> IF n = "=" THEN Two("NotEqual") ELSE One("Not")
          [] c = "<" -> IF n = "=" THEN Two("LessEqual")
                        ELSE IF n = "<" THEN Two("LeftShift") ELSE One("Less")
          [] c = ">" -> IF n = "=" THEN Two("GreaterEqual")
                        ELSE IF n = ">" THEN Two("RightShift")
                        ELSE One("Greater")
          [] c = "&" -> IF n = "&" THEN Two("And") ELSE One("BitwiseAnd")
          [] c = "|" -> IF n = "|" THEN Two("Or") ELSE One("BitwiseOr")
          [] c = "^" -> One("BitwiseXor")
          [] c = "~" -> One("BitwiseNot")
          [] c = "(" -> One("LeftParen")
          [] c = ")" -> One("RightParen")
          [] c = "{" -> One("LeftBrace")
          [] c = "}" -> One("RightBrace")
          [] c = "[" -> One("LeftBracket")
          [] c = "]" -> One("RightBracket")
          [] c = ";" -> One("Semicolon")
          [] c = ":" -> One("Colon")
          [] c = "," -> One("Comma")
          [] c = "." -> One("Dot")

RECURSIVE next_token(_, _)

\* the match of next_token, lx at the first character after the skipping loop
token_at(inp, lx) ==
    LET c == Val(peek(inp, lx))
        Tok(r, type) == [lx |-> r.lx, out |-> << type, lx.line, lx.column >>]
    IN  IF peek(inp, lx) = None
        THEN [lx |-> lx, out |-> << << "Eof", Unit >>, lx.line, lx.column >>]
        ELSE IF c \in {"\"", "'"}
             THEN Tok(read_string(inp, lx, c),
                      << "String", read_string(inp, lx, c).out >>)
        ELSE IF c \in Numeric
             THEN Tok(read_number(inp, lx), read_number(inp, lx).out)
        ELSE IF IsAlphabetic(c) \/ c = "_"
             THEN Tok(read_identifier(inp, lx),
                      keyword_or_identifier(read_identifier(inp, lx).out))
        ELSE IF c \in {"+", "-", "*", "/", "%", "=", "!", "<", ">", "&", "|",
                       "^", "~", "(", ")", "{", "}", "[", "]", ";", ":", ",",
                       "."}
             THEN Tok(operator_token(inp, lx, c), operator_token(inp, lx, c).out)
        ELSE \* an unknown character is skipped
             next_token(inp, lexer_advance(inp, lx))

next_token(inp, lx) == token_at(inp, skip_ignored(inp, lx))

(***************************************************************************)
(* Lexer::new(input).tokenize(), one next_token at a time, on every text   *)
(* of up to MaxInput characters and on the texts of the lexer's tests.     *)
(***************************************************************************)
RECURSIVE Texts(_)
Texts(n) ==
    IF n = 0 THEN {""}
    ELSE Texts(n - 1) \cup
         {t \o c : t \in Texts(n - 1),
                   c \in {"/", "*", "\"", "\\", "a", "\n", "@"}}

Inputs ==
    Texts(MaxInput) \cup
    { "let const if else for while fn return",
      "x variable_name _private",
      "42 0 999",
      "3.14 0.5 10.0",
      "\"hello world\" 'test'",
      "+ - * / % == != < > <= >=",
      "( ) { } [ ] ; : , .",
      "let x = 5; // this is a comment\nlet y = 10;",
      "let x = 5; /* this is a comment */ let y = 10;",
      "let int x = 5;\nconst int y = 10;\n\nif (x < y) {\n    println(\"x is less than y\");\n}" }

InitLexer ==
    /\ input \in Inputs
    /\ position = 0 /\ line = 1 /\ column = 1
    /\ draft_tokens = << >>
    /\ position_before = 0
    /\ pc = "tokenizing"
    /\ source = "" /\ quote_tokens = TRUE /\ runs = 0
    /\ first_outcome = NotCalled
    /\ overflow_checks = TRUE
    /\ EnvIdle /\ OpIdle /\ RunIdle /\ ParseIdle /\ StepIdle

\* A plausible slip: the loop is left at Eof before the token is pushed.
NextToken_BreaksBeforePush ==
    /\ pc = "tokenizing"
    /\ LET r == next_token(input, [position |-> position, line |-> line,
                                   column |-> column])
       IN  /\ position' = r.lx.position
           /\ line' = r.lx.line
           /\ column' = r.lx.column
           /\ draft_tokens' = IF r.out[1][1] = "Eof" THEN draft_tokens
                              ELSE Append(draft_tokens, r.out)
           /\ pc' = IF r.out[1][1] = "Eof" THEN "tokenized" ELSE pc
    /\ position_before' = position
    /\ UNCHANGED << store, prev_store, env_call, env_result, overflow_checks,
                    op_left, op_op, op_right, op_result,
                    statements, output, run_result, tokens, pos, parse_result,
                    source, quote_tokens, runs, first_outcome, step_vars,
                    input >>

\* one iteration of the loop of tokenize: the next token is pushed, and the
\* loop is left after an Eof
NextToken ==
    /\ pc = "tokenizing"
    /\ LET r == next_token(input, [position |-> position, line |-> line,
                                   column |-> column])
       IN  /\ position' = r.lx.position
           /\ line' = r.lx.line
           /\ column' = r.lx.column
           /\ draft_tokens' = Append(draft_tokens, r.out)
           /\ pc' = IF r.out[1][1] = "Eof" THEN "tokenized" ELSE pc
    /\ position_before' = position
    /\ UNCHANGED << store, prev_store, env_call, env_result, overflow_checks,
                    op_left, op_op, op_right, op_result,
                    statements, output, run_result, tokens, pos, parse_result,
                    source, quote_tokens, runs, first_outcome, step_vars,
                    input >>

NextLexer == NextToken

SpecLexer == InitLexer /\ [][NextLexer]_vars

(***************************************************************************)
(* Claims about the draft Lexer, checked under SpecLexer.                  *)
(***************************************************************************)
IsEof(tok) == tok[1][1] = "Eof"
Tokenized == pc = "tokenized"

PositionInBounds ==
    /\ position_before <= position
    /\ position <= Len(input)
    /\ Len(draft_tokens) <= position + 1
    /\ \A k \in 1..(Len(draft_tokens) - 1) : ~IsEof(draft_tokens[k])
    /\ Tokenized =>
          /\ draft_tokens # << >>
          /\ IsEof(draft_tokens[Len(draft_tokens)])
    /\ (~Tokenized) => \A k \in 1..Len(draft_tokens) : ~IsEof(draft_tokens[k])

\* C18: on every input text, one that ends inside a string literal or inside
\* a /* comment included, tokenize terminates and returns a non-empty token
\* sequence whose last token is Eof and that has no Eof before it; the
\* position never decreases and never exceeds the length of the input.
\* (Every next_token that does not return Eof has moved the position forward
\* and at the end of the input next_token returns Eof, which bounds the calls
\* by the length of the input plus one.)
C18_TokenizeEndsWithEof ==
    /\ []PositionInBounds
    /\ [][/\ position' >= position
          /\ (pc' = "tokenizing") => position' > position
          /\ position = Len(input) => pc' = "tokenized"
          /\ pc = "tokenized" => pc' = "tokenized"]_vars

\* A text that ends inside a string literal, after an unknown character and
\* with a backslash as its last character, was tokenized into the String and
\* Eof.
C18_Witness ==
    /\ Tokenized
    /\ input = "@\"a\\"
    /\ draft_tokens = << << << "String", "a" >>, 1, 2 >>,
                         << << "Eof", Unit >>, 1, 5 >> >>
    /\ position = Len(input)

====
